---- MODULE Spec2Model ----
(***************************************************************************)
(* A model of TFIDFMatcher (src/src/lib.rs): the n-gram tokenizer, the     *)
(* construction of a matcher (vocabulary fit, corpus matrix, row norms)    *)
(* and the query operations find, find_many and features.                  *)
(*                                                                         *)
(* Representation.                                                         *)
(*  - A string is a sequence of one-character strings; the value returned  *)
(*    by text_into_ngrams is such a sequence, with " " between n-grams.    *)
(*  - haystack_idx and vocabulary columns are 0-based, as in the code;     *)
(*    sequences of the model are 1-based, so row idx is element idx + 1.   *)
(*  - f64 values are fixed point.  An idf weight is kept in tenths, a      *)
(*    tf-idf entry is tf * idf (tenths), a dot product and a squared norm  *)
(*    are exact integers over those entries.  haystack_norm holds the      *)
(*    SQUARED row norm (the square root is taken inside CosineSim).  A     *)
(*    similarity is floor(10^4 * cos), a confidence is in hundredths.      *)
(*  - The vectorizer (linfa_preprocessing) and the containers of the       *)
(*    standard library (BinaryHeap, select_nth_unstable_by, sort_by) are   *)
(*    modelled by what they compute for the calls lib.rs makes.            *)
(***************************************************************************)
EXTENDS Integers, Sequences, FiniteSets, TLC

VARIABLES matcher, result
vars == <<matcher, result>>

(***************************************************************************)
(* Bounds of the model.                                                    *)
(***************************************************************************)
MaxTextLen == 3   \* longest text handed to text_into_ngrams on its own
MaxCorpus == 2    \* most corpus entries
MaxBatch == 2     \* most queries in one find_many call
MaxTopK == 2      \* largest top_k

Alphabet == {"a", "B", " ", "\t", "_"}

RECURSIVE StringsUpTo(_)
StringsUpTo(n) ==
    IF n = 0 THEN {<<>>}
    ELSE LET shorter == StringsUpTo(n - 1)
         IN  shorter \cup {Append(s, c) : s \in {t \in shorter : Len(t) = n - 1}, c \in Alphabet}

Texts == StringsUpTo(MaxTextLen)
NgramLengths == 1..4

\* corpus entries and queries of the matcher
Strings == {<<>>, <<"b">>, <<"b", "b">>, <<"a", "b", " ", "b">>}
MatcherNgramLengths == {2, 3}

RECURSIVE SeqsUpTo(_, _)
SeqsUpTo(S, n) ==
    IF n = 0 THEN {<<>>}
    ELSE LET shorter == SeqsUpTo(S, n - 1)
         IN  shorter \cup {Append(s, x) : s \in {t \in shorter : Len(t) = n - 1}, x \in S}

Min(a, b) == IF a < b THEN a ELSE b

(***************************************************************************)
(* text_into_ngrams                                                        *)
(***************************************************************************)
IsWhitespace(c) == c \in {" ", "\t"}

\* char::to_lowercase yields the lowercase character(s) of c
ToLowercase(c) ==
    CASE c = "A" -> <<"a">>
      [] c = "B" -> <<"b">>
      [] OTHER -> <<c>>

\* str::split_whitespace: the maximal runs of non-whitespace, left to right
RECURSIVE SplitFrom(_, _, _)
SplitFrom(text, i, word) ==
    IF i > Len(text) THEN (IF word = <<>> THEN <<>> ELSE <<word>>)
    ELSE IF IsWhitespace(text[i])
         THEN (IF word = <<>> THEN <<>> ELSE <<word>>) \o SplitFrom(text, i + 1, <<>>)
         ELSE SplitFrom(text, i + 1, Append(word, text[i]))

SplitWhitespace(text) == SplitFrom(text, 1, <<>>)

\* word.chars().flat_map(char::to_lowercase)
RECURSIVE LowerChars(_)
LowerChars(word) ==
    IF word = <<>> THEN <<>> ELSE ToLowercase(Head(word)) \o LowerChars(Tail(word))

\* the loop over the words: '_' before every word but the first, then the word
RECURSIVE PushWords(_, _, _)
PushWords(chars, words, first) ==
    IF words = <<>> THEN chars
    ELSE PushWords((IF first THEN chars ELSE Append(chars, "_")) \o LowerChars(Head(words)),
                   Tail(words), FALSE)

\* chars: _word1_word2_
PaddedChars(text) == Append(PushWords(<<"_">>, SplitWhitespace(text), TRUE), "_")

\* mutant: the whole window is searched for '_', its two ends included
InteriorHasBoundaryWholeWindow(chars, i, n) == \E j \in i..(i + n - 1) : chars[j + 1] = "_"

\* chars[i + 1..i + n - 1].contains(&'_'), i 0-based
InteriorHasBoundary(chars, i, n) == \E j \in (i + 1)..(i + n - 2) : chars[j + 1] = "_"

\* for i in 0..=chars.len() - n
RECURSIVE NgramLoop(_, _, _, _)
NgramLoop(chars, n, i, out) ==
    IF i > Len(chars) - n THEN out
    ELSE IF n > 2 /\ InteriorHasBoundary(chars, i, n)
         THEN NgramLoop(chars, n, i + 1, out)
         ELSE NgramLoop(chars, n, i + 1,
                        (IF out # <<>> THEN Append(out, " ") ELSE out)
                            \o SubSeq(chars, i + 1, i + n))

TextIntoNgrams(text, n) ==
    LET chars == PaddedChars(text)
    IN  IF Len(chars) < n THEN <<>> ELSE NgramLoop(chars, n, 0, <<>>)

(***************************************************************************)
(* The vectorizer: TfIdfVectorizer::fit and FittedTfIdfVectorizer::transform*)
(* as lib.rs configures them (lowercase, split_by_whitespace tokenizer,    *)
(* 1-grams of tokens, no document-frequency filter, smooth idf).           *)
(***************************************************************************)
\* the tokens of one processed document
Tokens(doc) == SplitWhitespace(LowerChars(doc))

RECURSIVE Distinct(_, _)
Distinct(seq, acc) ==
    IF seq = <<>> THEN acc
    ELSE Distinct(Tail(seq),
                  IF \E p \in 1..Len(acc) : acc[p] = Head(seq) THEN acc ELSE Append(acc, Head(seq)))

RECURSIVE AllTokens(_)
AllTokens(docs) == IF docs = <<>> THEN <<>> ELSE Tokens(Head(docs)) \o AllTokens(Tail(docs))

Rotate(seq, r) == SubSeq(seq, r + 1, Len(seq)) \o SubSeq(seq, 1, r)

\* fit: the distinct tokens of the corpus.  A token's column is its place in
\* the iteration order of a HashMap, which differs from run to run: the model
\* takes the order of first occurrence rotated by r, for two values of r.
FitOrders(docs) == {0, Len(Distinct(AllTokens(docs), <<>>)) \div 2}
Fit(docs, r) == Rotate(Distinct(AllTokens(docs), <<>>), r)

\* round(1000 * ln k), k = 1..8
LnMilli == <<0, 693, 1099, 1386, 1609, 1792, 1946, 2079>>

\* smooth idf, ln((1 + n) / (1 + df)) + 1, in tenths
ComputeIdf(n, df) == (1000 + LnMilli[1 + n] - LnMilli[1 + df] + 50) \div 100

\* the count of every vocabulary entry among the tokens of doc; a token that
\* is not in the vocabulary is counted nowhere
RECURSIVE CountsFrom(_, _, _)
CountsFrom(vocabulary, toks, j) ==
    IF j > Len(vocabulary) THEN <<>>
    ELSE <<Cardinality({p \in 1..Len(toks) : toks[p] = vocabulary[j]})>>
             \o CountsFrom(vocabulary, toks, j + 1)

\* mutant: a token that is not in the vocabulary is counted in column 0
TermFreqsDefaultColumn(vocabulary, doc) ==
    LET toks == Tokens(doc)
        counts == CountsFrom(vocabulary, toks, 1)
        unknown == Cardinality({p \in 1..Len(toks) :
                                  \A j \in 1..Len(vocabulary) : vocabulary[j] # toks[p]})
    IN  IF vocabulary = <<>> THEN counts ELSE [counts EXCEPT ![1] = @ + unknown]

TermFreqs(vocabulary, doc) == CountsFrom(vocabulary, Tokens(doc), 1)

\* the rows of term frequencies of the documents from the d-th on
RECURSIVE TermFreqRows(_, _, _)
TermFreqRows(vocabulary, docs, d) ==
    IF d > Len(docs) THEN <<>>
    ELSE <<TermFreqs(vocabulary, docs[d])>> \o TermFreqRows(vocabulary, docs, d + 1)

\* per column the number of rows that hold it
RECURSIVE DocFreqs(_, _, _)
DocFreqs(tf, v, j) ==
    IF j > v THEN <<>>
    ELSE <<Cardinality({d \in 1..Len(tf) : tf[d][j] > 0})>> \o DocFreqs(tf, v, j + 1)

RECURSIVE Idfs(_, _, _)
Idfs(n, df, j) ==
    IF j > Len(df) THEN <<>> ELSE <<ComputeIdf(n, df[j])>> \o Idfs(n, df, j + 1)

RECURSIVE Weighted(_, _, _)
Weighted(row, idf, j) ==
    IF j > Len(row) THEN <<>> ELSE <<row[j] * idf[j]>> \o Weighted(row, idf, j + 1)

RECURSIVE WeightedRows(_, _, _)
WeightedRows(tf, idf, d) ==
    IF d > Len(tf) THEN <<>>
    ELSE <<Weighted(tf[d], idf, 1)>> \o WeightedRows(tf, idf, d + 1)

\* transform: one row per document, tf * idf, where n and df are those of the
\* documents being transformed
Transform(vocabulary, docs) ==
    LET tf == TermFreqRows(vocabulary, docs, 1)
    IN  WeightedRows(tf, Idfs(Len(docs), DocFreqs(tf, Len(vocabulary), 1), 1), 1)

\* CsVec::indices of a row: the columns it stores, ascending, 0-based
RECURSIVE IndicesFrom(_, _)
IndicesFrom(row, j) ==
    IF j > Len(row) THEN <<>>
    ELSE (IF row[j] > 0 THEN <<j - 1>> ELSE <<>>) \o IndicesFrom(row, j + 1)

\* mutant: the columns are numbered from 1
IndicesOneBased(row) ==
    LET z == IndicesFrom(row, 1) IN [p \in 1..Len(z) |-> z[p] + 1]

Indices(row) == IndicesFrom(row, 1)

RECURSIVE DotFrom(_, _, _)
DotFrom(a, b, j) == IF j > Len(a) THEN 0 ELSE a[j] * b[j] + DotFrom(a, b, j + 1)

Dot(a, b) == DotFrom(a, b, 1)

\* Normalize::normalize: per row the sum of squares (the square root is taken
\* in CosineSim)
RECURSIVE NormsFrom(_, _)
NormsFrom(mat, d) ==
    IF d > Len(mat) THEN <<>> ELSE <<Dot(mat[d], mat[d])>> \o NormsFrom(mat, d + 1)

Normalize(mat) == NormsFrom(mat, 1)

(***************************************************************************)
(* Similarity and rounding                                                 *)
(***************************************************************************)
\* floor(num * 10^k / den) for num <= den, by long division
RECURSIVE Digits(_, _, _, _)
Digits(rem, den, k, acc) ==
    IF k = 0 THEN acc
    ELSE Digits((rem * 10) % den, den, k - 1, acc * 10 + (rem * 10) \div den)

RECURSIVE IsqrtIn(_, _, _)
IsqrtIn(x, lo, hi) ==   \* lo * lo <= x < hi * hi
    IF hi - lo <= 1 THEN lo
    ELSE LET mid == (lo + hi) \div 2
         IN  IF mid * mid <= x THEN IsqrtIn(x, mid, hi) ELSE IsqrtIn(x, lo, mid)

Isqrt(x) == IsqrtIn(x, 0, 10001)

\* sim = if denom == 0.0 { 0.0 } else { dot / denom }, denom = q_norm * h_norm:
\* floor(10^4 * dot / sqrt(qn2 * hn2))
CosineSim(dot, qn2, hn2) ==
    IF qn2 = 0 \/ hn2 = 0 THEN 0
    ELSE LET num == dot * dot
             den == qn2 * hn2
         IN  Isqrt((num \div den) * 100000000 + Digits(num % den, den, 8, 0))

\* round_confidence: (sim * 100).round() / 100, in hundredths
RoundConfidence(sim) == (sim + 50) \div 100

\* the (idx, sim) of every corpus row against one query row
RECURSIVE SimilaritiesFrom(_, _, _, _)
SimilaritiesFrom(m, qrow, qn2, j) ==
    IF j > Len(m.haystack) THEN <<>>
    ELSE <<[idx |-> j - 1,
            sim |-> CosineSim(Dot(m.haystack_tfidf[j], qrow), qn2, m.haystack_norm[j])]>>
             \o SimilaritiesFrom(m, qrow, qn2, j + 1)

Similarities(m, qrow) == SimilaritiesFrom(m, qrow, Dot(qrow, qrow), 1)

MatchEntry(m, e) ==
    [haystack |-> m.haystack[e.idx + 1], haystack_idx |-> e.idx,
     confidence |-> RoundConfidence(e.sim)]

RECURSIVE MatchEntries(_, _)
MatchEntries(m, scored) ==
    IF scored = <<>> THEN <<>>
    ELSE <<MatchEntry(m, Head(scored))>> \o MatchEntries(m, Tail(scored))

(***************************************************************************)
(* find: select_nth_unstable_by, then sort_by on the first k                *)
(***************************************************************************)
\* mutant: the similarities are compared after rounding
IsLessRounded(a, b) == RoundConfidence(a.sim) > RoundConfidence(b.sim)

\* |a, b| b.1.partial_cmp(&a.1): a sorts before b when its sim is greater
IsLess(a, b) == a.sim > b.sim

Swap(v, p, q) == [v EXCEPT ![p] = v[q], ![q] = v[p]]

\* insert x into the sorted sequence v behind every element it is not less than
RECURSIVE InsertSorted(_, _)
InsertSorted(v, x) ==
    IF v = <<>> THEN <<x>>
    ELSE IF IsLess(x, v[Len(v)])
         THEN Append(InsertSorted(SubSeq(v, 1, Len(v) - 1), x), v[Len(v)])
         ELSE Append(v, x)

\* the stable insertion sort slices this short are sorted with
RECURSIVE InsertionSort(_)
InsertionSort(v) ==
    IF v = <<>> THEN <<>>
    ELSE InsertSorted(InsertionSort(SubSeq(v, 1, Len(v) - 1)), v[Len(v)])

\* max_index: reduce(|acc, t| if is_less(acc, t) { t } else { acc })
RECURSIVE MaxIndexFrom(_, _, _)
MaxIndexFrom(v, acc, p) ==
    IF p > Len(v) THEN acc
    ELSE MaxIndexFrom(v, IF IsLess(v[acc], v[p]) THEN p ELSE acc, p + 1)

MaxIndex(v) == MaxIndexFrom(v, 1, 2)

\* min_index: reduce(|acc, t| if is_less(t, acc) { t } else { acc })
RECURSIVE MinIndexFrom(_, _, _)
MinIndexFrom(v, acc, p) ==
    IF p > Len(v) THEN acc
    ELSE MinIndexFrom(v, IF IsLess(v[p], v[acc]) THEN p ELSE acc, p + 1)

MinIndex(v) == MinIndexFrom(v, 1, 2)

\* similarities.select_nth_unstable_by(index, ..), index 0-based, on a slice
\* short enough to be finished by insertion sort
SelectNthUnstableBy(v, index) ==
    IF index = Len(v) - 1 THEN Swap(v, MaxIndex(v), index + 1)
    ELSE IF index = 0 THEN Swap(v, MinIndex(v), 1)
    ELSE InsertionSort(v)

\* top_k.sort_by(..): stable
SortBy(v) == InsertionSort(v)

\* let k = top_k.min(similarities.len())
TopCount(top_k, len) == Min(top_k, len)

FindRanked(similarities, top_k) ==
    LET k == TopCount(top_k, Len(similarities))
    IN  IF k > 0
        THEN SortBy(SubSeq(SelectNthUnstableBy(similarities, k - 1), 1, k))
        ELSE <<>>

\* text_into_ngrams of every text
RECURSIVE Processed(_, _)
Processed(texts, n) ==
    IF texts = <<>> THEN <<>>
    ELSE <<TextIntoNgrams(Head(texts), n)>> \o Processed(Tail(texts), n)

\* the query row of find and features: the transform of the one document
QueryRow(m, needle) == Transform(m.vocabulary, <<TextIntoNgrams(needle, m.ngram_length)>>)[1]

FindNeedle(m, needle, top_k) ==
    [needle |-> needle,
     matches |-> MatchEntries(m, FindRanked(Similarities(m, QueryRow(m, needle)), top_k))]

(***************************************************************************)
(* find_many: a BinaryHeap<Scored> per query, Scored ordered by sim        *)
(* reversed                                                                *)
(***************************************************************************)
\* a <= b, a < b, a >= b under Scored::cmp (other.sim.partial_cmp(&self.sim))
ScoredLe(a, b) == b.sim <= a.sim
ScoredLt(a, b) == b.sim < a.sim
ScoredGe(a, b) == b.sim >= a.sim

\* positions are 0-based, data[p + 1] is the element at position p
RECURSIVE SiftUp(_, _, _)
SiftUp(data, start, pos) ==
    IF pos > start
    THEN LET parent == (pos - 1) \div 2
         IN  IF ScoredLe(data[pos + 1], data[parent + 1]) THEN data
             ELSE SiftUp(Swap(data, pos + 1, parent + 1), start, parent)
    ELSE data

HeapPush(data, entry) == SiftUp(Append(data, entry), 0, Len(data))

SatSub2(end) == IF end >= 2 THEN end - 2 ELSE 0

RECURSIVE SiftDownToBottom(_, _, _)
SiftDownToBottom(data, start, pos) ==
    LET end == Len(data)
        child == 2 * pos + 1
    IN  IF child <= SatSub2(end)
        THEN LET c == IF ScoredLe(data[child + 1], data[child + 2]) THEN child + 1 ELSE child
             IN  SiftDownToBottom(Swap(data, pos + 1, c + 1), start, c)
        ELSE IF child = end - 1
             THEN SiftUp(Swap(data, pos + 1, child + 1), start, child)
             ELSE SiftUp(data, start, pos)

\* heap.pop(): the data left once the top is removed
HeapPop(data) ==
    LET rest == SubSeq(data, 1, Len(data) - 1)
    IN  IF rest = <<>> THEN rest
        ELSE SiftDownToBottom([rest EXCEPT ![1] = data[Len(data)]], 0, 0)

RECURSIVE SiftDownRange(_, _, _)
SiftDownRange(data, pos, end) ==
    LET child == 2 * pos + 1
    IN  IF child <= SatSub2(end)
        THEN LET c == IF ScoredLe(data[child + 1], data[child + 2]) THEN child + 1 ELSE child
             IN  IF ScoredGe(data[pos + 1], data[c + 1]) THEN data
                 ELSE SiftDownRange(Swap(data, pos + 1, c + 1), c, end)
        ELSE IF child = end - 1 /\ ScoredLt(data[pos + 1], data[child + 1])
             THEN Swap(data, pos + 1, child + 1)
             ELSE data

RECURSIVE SortedFrom(_, _)
SortedFrom(data, end) ==
    IF end > 1
    THEN SortedFrom(SiftDownRange(Swap(data, 1, end), 0, end - 1), end - 1)
    ELSE data

\* mutant: into_vec, the heap's own order
IntoVec(data) == data

\* heap.into_sorted_vec()
IntoSortedVec(data) == SortedFrom(data, Len(data))

\* mutant: the smallest entry is not popped before the push
HeapOfferNoPop(heap, entry, top_k) ==
    IF Len(heap) < top_k THEN HeapPush(heap, entry)
    ELSE IF heap # <<>> /\ entry.sim > heap[1].sim THEN HeapPush(heap, entry)
    ELSE heap

\* mutant: once the heap is full no entry replaces another
HeapOfferFirstK(heap, entry, top_k) ==
    IF Len(heap) < top_k THEN HeapPush(heap, entry) ELSE heap

\* one turn of the loop over the corpus rows
HeapOffer(heap, entry, top_k) ==
    IF Len(heap) < top_k THEN HeapPush(heap, entry)
    ELSE IF heap # <<>> /\ entry.sim > heap[1].sim THEN HeapPush(HeapPop(heap), entry)
    ELSE heap

RECURSIVE HeapScan(_, _, _, _)
HeapScan(similarities, j, heap, top_k) ==
    IF j > Len(similarities) THEN heap
    ELSE HeapScan(similarities, j + 1, HeapOffer(heap, similarities[j], top_k), top_k)

ManyRanked(similarities, top_k) == IntoSortedVec(HeapScan(similarities, 1, <<>>, top_k))

\* the query rows of find_many: one transform of all the needles
QueryRows(m, needles) == Transform(m.vocabulary, Processed(needles, m.ngram_length))

\* the loop over the needles, from the i-th on
RECURSIVE NeedlesFrom(_, _, _, _, _)
NeedlesFrom(m, needles, rows, top_k, i) ==
    IF i > Len(needles) THEN <<>>
    ELSE <<[needle |-> needles[i],
            matches |-> MatchEntries(m, ManyRanked(Similarities(m, rows[i]), top_k))]>>
             \o NeedlesFrom(m, needles, rows, top_k, i + 1)

FindManyNeedles(m, needles, top_k) ==
    NeedlesFrom(m, needles, QueryRows(m, needles), top_k, 1)

FeatureIndices(m, needle) == Indices(QueryRow(m, needle))

(***************************************************************************)
(* State                                                                   *)
(***************************************************************************)
NoMatcher == [built |-> FALSE]
NoResult == [op |-> "none"]

Corpora == SeqsUpTo(Strings, MaxCorpus)
Batches == SeqsUpTo(Strings, MaxBatch)
TopKs == 0..MaxTopK

Init == matcher = NoMatcher /\ result = NoResult

\* TFIDFMatcher::new
Build(haystack, ngram_length, r) ==
    LET processed == Processed(haystack, ngram_length)
        fitted == Fit(processed, r)
        tfidf == Transform(fitted, processed)
    IN  [built |-> TRUE,
         haystack |-> haystack,
         vocabulary |-> fitted,
         haystack_tfidf |-> tfidf,
         haystack_norm |-> Normalize(tfidf),
         ngram_length |-> ngram_length]

New(haystack, ngram_length) ==
    /\ ~matcher.built
    /\ \E r \in FitOrders(Processed(haystack, ngram_length)) :
           matcher' = Build(haystack, ngram_length, r)
    /\ result' = [op |-> "new", value |-> "Ok"]

\* the caller is done with the value a call returned
Drop ==
    /\ result.op # "none"
    /\ result' = NoResult
    /\ UNCHANGED matcher

Ready == matcher.built /\ result.op = "none"

\* mutant: find adds the query's unseen n-grams to the vocabulary
FindLearning(needle, top_k) ==
    /\ Ready
    /\ result' = [op |-> "find", needle |-> needle, top_k |-> top_k,
                  value |-> FindNeedle(matcher, needle, top_k)]
    /\ matcher' = [matcher EXCEPT !.vocabulary =
                      Distinct(Tokens(TextIntoNgrams(needle, matcher.ngram_length)), @)]

Find(needle, top_k) ==
    /\ Ready
    /\ result' = [op |-> "find", needle |-> needle, top_k |-> top_k,
                  value |-> FindNeedle(matcher, needle, top_k)]
    /\ UNCHANGED matcher

FindMany(needles, top_k) ==
    /\ Ready
    /\ result' = [op |-> "find_many", needles |-> needles, top_k |-> top_k,
                  value |-> FindManyNeedles(matcher, needles, top_k)]
    /\ UNCHANGED matcher

Features(needle) ==
    /\ Ready
    /\ result' = [op |-> "features", needle |-> needle,
                  value |-> FeatureIndices(matcher, needle)]
    /\ UNCHANGED matcher

Next ==
    \/ \E haystack \in Corpora, n \in MatcherNgramLengths : New(haystack, n)
    \/ \E needle \in Strings, top_k \in TopKs : Find(needle, top_k)
    \/ \E needles \in Batches, top_k \in TopKs : FindMany(needles, top_k)
    \/ \E needle \in Strings : Features(needle)
    \/ Drop

Spec == Init /\ [][Next]_vars

(***************************************************************************)
(* The tokenizer on its own: the inputs are drawn, then the call is made   *)
(***************************************************************************)
InitTok ==
    /\ matcher = NoMatcher
    /\ result \in {[op |-> "call", text |-> t, n |-> n] : t \in Texts, n \in NgramLengths}

Tokenize ==
    /\ result.op = "call"
    /\ result' = [op |-> "text_into_ngrams", text |-> result.text, n |-> result.n,
                  value |-> TextIntoNgrams(result.text, result.n)]
    /\ UNCHANGED matcher

NextTok == Tokenize

SpecTok == InitTok /\ [][NextTok]_vars

(***************************************************************************)
(* Properties                                                              *)
(***************************************************************************)
\* the Needles the last call returned, with the query row each was scored with
Returned ==
    IF result.op = "find"
    THEN {[nd |-> result.value, row |-> QueryRow(matcher, result.needle)]}
    ELSE IF result.op = "find_many"
    THEN LET rows == QueryRows(matcher, result.needles)
         IN  {[nd |-> result.value[i], row |-> rows[i]] : i \in 1..Len(result.value)}
    ELSE {}

Rows == Len(matcher.haystack)

\* the set of n-gram tokens of a query
QueryTokens(needle) ==
    LET toks == Tokens(TextIntoNgrams(needle, matcher.ngram_length))
    IN  {toks[p] : p \in 1..Len(toks)}

VocabularySet == {matcher.vocabulary[j] : j \in 1..Len(matcher.vocabulary)}

\* C1: the i-th Needle of find_many(queries, top_k) is the Needle of
\* find(queries[i], top_k): same query, same matches in the same order, with
\* the same haystack_idx, haystack and confidence.
FindManyEqualsFind ==
    result.op = "find_many" =>
        \A i \in 1..Len(result.needles) :
            result.value[i] = FindNeedle(matcher, result.needles[i], result.top_k)

\* C2: every returned Needle holds min(top_k, corpus size) matches, on
\* pairwise distinct rows of the corpus, whatever the similarities are.
MatchCount ==
    \A r \in Returned :
        LET ms == r.nd.matches
        IN  /\ result.top_k <= Rows => Len(ms) = result.top_k
            /\ result.top_k >= Rows => Len(ms) = Rows
            /\ \A p \in 1..Len(ms) : ms[p].haystack_idx \in 0..(Rows - 1)
            /\ \A p, q \in 1..Len(ms) : p # q => ms[p].haystack_idx # ms[q].haystack_idx

\* find_many returned the whole corpus of two rows, one of them with similarity 0
MatchCountWitness ==
    /\ result.op = "find_many"
    /\ Len(result.value) >= 1
    /\ Rows = 2
    /\ result.top_k >= Rows
    /\ Len(result.value[1].matches) = 2
    /\ result.value[1].matches[1].confidence > 0
    /\ result.value[1].matches[2].confidence = 0

\* C3: the confidences of a returned match list never increase from one match
\* to the next.
ConfidencesNonIncreasing ==
    \A r \in Returned :
        \A p \in 1..(Len(r.nd.matches) - 1) :
            r.nd.matches[p].confidence >= r.nd.matches[p + 1].confidence

\* find_many ranked row 1 before row 0, with distinct positive confidences
ConfidencesWitness ==
    /\ result.op = "find_many"
    /\ Len(result.value) >= 1
    /\ Len(result.value[1].matches) = 2
    /\ result.value[1].matches[1].haystack_idx = 1
    /\ result.value[1].matches[1].confidence > result.value[1].matches[2].confidence
    /\ result.value[1].matches[2].confidence > 0

\* C4: find(S, top_k >= 1) on a corpus that holds S at index i returns i first,
\* with similarity 1.  Stated for the plain case of the claim: S is the only
\* entry of the corpus with its n-grams, and it has n-grams.
SelfSimilarityIsOne ==
    (/\ result.op = "find"
     /\ result.top_k >= 1
     /\ QueryTokens(result.needle) # {})
    => \A i \in 1..Rows :
          (/\ matcher.haystack[i] = result.needle
           /\ \A j \in 1..Rows : j # i =>
                  matcher.haystack_tfidf[j] # matcher.haystack_tfidf[i])
          => /\ result.value.matches[1].haystack_idx = i - 1
             /\ result.value.matches[1].haystack = result.needle
             /\ result.value.matches[1].confidence = 100

\* C5: no matcher is built from a corpus that yields no n-gram token.
NewFailsOnEmptyVocabulary == matcher.built => matcher.vocabulary # <<>>

\* C6: a step taken on a built matcher leaves every field of the matcher as it
\* was, and the Needle a find step returns is the one the unchanged matcher
\* determines for (query, top_k).
QueriesAreReadOnly ==
    [][matcher.built =>
          /\ matcher' = matcher
          /\ result'.op = "find" =>
                 result'.value = FindNeedle(matcher, result'.needle, result'.top_k)]_vars

\* find returned matches for a query with an n-gram the corpus does not have
ReadOnlyWitness ==
    /\ matcher.built
    /\ result.op = "find"
    /\ result.value.matches # <<>>
    /\ QueryTokens(result.needle) \ VocabularySet # {}

\* The sequence _word1_..._wordN_ read off the text: the text from its first to
\* its last non-whitespace character, lowercased, with '_' for every
\* whitespace run, and '_' at each end.
RECURSIVE CollapseFrom(_, _, _)
CollapseFrom(text, p, last) ==
    IF p > last THEN <<>>
    ELSE (IF ~IsWhitespace(text[p]) THEN ToLowercase(text[p])
          ELSE IF ~IsWhitespace(text[p - 1]) THEN <<"_">>
          ELSE <<>>) \o CollapseFrom(text, p + 1, last)

BoundarySequence(text) ==
    LET inWord == {p \in 1..Len(text) : ~IsWhitespace(text[p])}
    IN  IF inWord = {} THEN <<"_", "_">>
        ELSE LET first == CHOOSE p \in inWord : \A q \in inWord : p <= q
                 last == CHOOSE p \in inWord : \A q \in inWord : p >= q
             IN  <<"_">> \o CollapseFrom(text, first, last) \o <<"_">>

\* the window that starts at position s (1-based) is accepted
Accepted(seq, n, s) == n <= 2 \/ \A j \in (s + 1)..(s + n - 2) : seq[j] # "_"

RECURSIVE JoinWindows(_, _, _)
JoinWindows(seq, n, starts) ==
    IF starts = {} THEN <<>>
    ELSE LET s == CHOOSE x \in starts : \A y \in starts : x >= y
             before == JoinWindows(seq, n, starts \ {s})
         IN  (IF before = <<>> THEN <<>> ELSE Append(before, " ")) \o SubSeq(seq, s, s + n - 1)

ExpectedNgrams(text, n) ==
    LET seq == BoundarySequence(text)
    IN  JoinWindows(seq, n, {s \in 1..(Len(seq) - n + 1) : Accepted(seq, n, s)})

\* C7: text_into_ngrams(text, n) is the accepted width-n windows of the
\* sequence _word1_..._wordN_, left to right, joined by single spaces, and is
\* empty when the sequence is shorter than n.
NgramsAreAcceptedWindows ==
    result.op = "text_into_ngrams" => result.value = ExpectedNgrams(result.text, result.n)

\* "a B" with n = 3: _a_ and _b_ are kept, the window a_b between them is not
NgramsWitness ==
    /\ result.op = "text_into_ngrams"
    /\ result.text = <<"a", " ", "B">>
    /\ result.n = 3
    /\ result.value = <<"_", "a", "_", " ", "_", "b", "_">>

\* C8: features(query) is, ascending and without repetition, the columns of
\* the query's n-grams that are in the vocabulary; it is empty when none is.
FeaturesAreKnownColumns ==
    result.op = "features" =>
        /\ \A p \in 1..(Len(result.value) - 1) : result.value[p] < result.value[p + 1]
        /\ {result.value[p] : p \in 1..Len(result.value)}
             = {j \in 0..(Len(matcher.vocabulary) - 1) :
                    matcher.vocabulary[j + 1] \in QueryTokens(result.needle)}
        /\ Len(result.value) = Cardinality(QueryTokens(result.needle) \cap VocabularySet)

\* some of the query's n-grams are in the vocabulary, not in column 0, some are not
FeaturesWitness ==
    /\ result.op = "features"
    /\ result.value # <<>>
    /\ result.value[1] > 0
    /\ QueryTokens(result.needle) \ VocabularySet # {}

\* C9: the returned rows are the top_k rows by unrounded similarity, in the
\* order of the unrounded similarities, and a confidence is the rounding of
\* the similarity of its row.
RankedByFullPrecision ==
    \A r \in Returned :
        LET ms == r.nd.matches
            sims == Similarities(matcher, r.row)
            shown == {ms[p].haystack_idx : p \in 1..Len(ms)}
        IN  /\ \A p \in 1..Len(ms) :
                   ms[p].confidence = RoundConfidence(sims[ms[p].haystack_idx + 1].sim)
            /\ \A p \in 1..(Len(ms) - 1) :
                   sims[ms[p].haystack_idx + 1].sim >= sims[ms[p + 1].haystack_idx + 1].sim
            /\ \A e \in 1..Len(sims) : (e - 1) \notin shown =>
                   \A p \in 1..Len(ms) : sims[e].sim <= sims[ms[p].haystack_idx + 1].sim

\* find ranked row 1 before row 0 on similarities that differ and round to the
\* same confidence
RankedWitness ==
    /\ result.op = "find"
    /\ Len(result.value.matches) = 2
    /\ result.value.matches[1].haystack_idx = 1
    /\ result.value.matches[1].confidence = result.value.matches[2].confidence
    /\ LET sims == Similarities(matcher, QueryRow(matcher, result.needle))
       IN  sims[2].sim > sims[1].sim

====
